---------------------------- MODULE Spec2Model ----------------------------
(***************************************************************************)
(* Model of the stat-normalisation and comparison engine of main.py:       *)
(* convert_percentage_value, extract_stat_value,                           *)
(* get_category_info_from_stats, get_all_team_stats_from_matchups,         *)
(* compare_teams and compare_head_to_head.                                 *)
(*                                                                         *)
(* Python values are modelled as follows.                                  *)
(*   str    a sequence of one-character strings, <<"P","T","S">> = "PTS"   *)
(*   float  a decimal number m / 10^e, kept as the pair (m, e) without     *)
(*          trailing zeros; division by a power of ten is exact            *)
(*   None / float / pass-through str results of extract_stat_value are     *)
(*          records [t, m, e, s] with t in {"None","float","str"}          *)
(*   a missing attribute (hasattr(...) false) is the marker NoAttr, an     *)
(*   empty APIAttr object the marker EmptyAPIAttr                          *)
(*   a dict is a sequence of [key, val] records in insertion order         *)
(***************************************************************************)
EXTENDS Integers, Sequences, FiniteSets, TLC

VARIABLES
    pc,              \* position of the run
    all_teams,       \* roster: sequence of team ids (league.teams())
    selected_team,   \* team id of the selected team
    matchups,        \* the week's matchups as delivered by the provider
    all_team_stats,  \* dict team_id -> stats list, in insertion order
    categories_info, \* resolved categories
    cat_idx,         \* index of the category compare_teams works on next
    rows,            \* report rows emitted by compare_teams so far
    matchup_results, \* result list of compare_head_to_head
    error,           \* "none", or the exception that ended the run
    args,            \* arguments of a call of one of the pure functions
    ret              \* its return value

vars == <<pc, all_teams, selected_team, matchups, all_team_stats,
          categories_info, cat_idx, rows, matchup_results, error, args, ret>>

---------------------------------------------------------------------------
(* Bounds of the model *)

\* largest numeric stat value "1".."MaxVal" a team reports in the comparison run
MaxVal == 3

\* longest raw value string handed to convert_percentage_value
MaxRawLen == 4

\* longest stats list handed to extract_stat_value
MaxStats == 2

\* longest sample handed to get_category_info_from_stats
MaxSample == 4

\* largest number of other teams handed to get_color_for_performance
MaxTeams == 10

---------------------------------------------------------------------------
(* Python strings *)

Digits == <<"0", "1", "2", "3", "4", "5", "6", "7", "8", "9">>

UpperChars == <<"A","B","C","D","E","F","G","H","I","J","K","L","M",
                "N","O","P","Q","R","S","T","U","V","W","X","Y","Z">>

LowerChars == <<"a","b","c","d","e","f","g","h","i","j","k","l","m",
                "n","o","p","q","r","s","t","u","v","w","x","y","z">>

IsDigit(c) == \E i \in 1..Len(Digits) : Digits[i] = c

DigitVal(c) == (CHOOSE i \in 1..Len(Digits) : Digits[i] = c) - 1

\* str.lower(), character by character
LowerChar(c) ==
    IF \E i \in 1..Len(UpperChars) : UpperChars[i] = c
    THEN LowerChars[CHOOSE i \in 1..Len(UpperChars) : UpperChars[i] = c]
    ELSE c

Lower(s) == [i \in 1..Len(s) |-> LowerChar(s[i])]

\* sub in s
Contains(s, sub) ==
    \E i \in 0..(Len(s) - Len(sub)) : SubSeq(s, i + 1, i + Len(sub)) = sub

StartsWith(s, p) == Len(p) <= Len(s) /\ SubSeq(s, 1, Len(p)) = p

EndsWith(s, p) == Len(p) <= Len(s) /\ SubSeq(s, Len(s) - Len(p) + 1, Len(s)) = p

\* code point order of the characters the model uses: digits < upper < lower,
\* every other character (punctuation) below the digits
CharCode(c) ==
    IF IsDigit(c) THEN 48 + DigitVal(c)
    ELSE IF \E i \in 1..Len(UpperChars) : UpperChars[i] = c
         THEN 64 + (CHOOSE i \in 1..Len(UpperChars) : UpperChars[i] = c)
    ELSE IF \E i \in 1..Len(LowerChars) : LowerChars[i] = c
         THEN 96 + (CHOOSE i \in 1..Len(LowerChars) : LowerChars[i] = c)
    ELSE 32

\* s < t on Python strings (lexicographic by code point)
RECURSIVE StrLess(_, _)
StrLess(s, t) ==
    IF t = <<>> THEN FALSE
    ELSE IF s = <<>> THEN TRUE
    ELSE IF CharCode(Head(s)) # CharCode(Head(t))
         THEN CharCode(Head(s)) < CharCode(Head(t))
    ELSE StrLess(Tail(s), Tail(t))

\* the markers for a missing attribute and for an empty APIAttr object
NoAttr == <<"<no attribute>">>
EmptyAPIAttr == <<"<APIAttr {}>">>

\* the decimal digits of n >= 0 as a Python string (str(n))
RECURSIVE StrOfNat(_)
StrOfNat(n) ==
    IF n < 10 THEN <<Digits[n + 1]>>
    ELSE Append(StrOfNat(n \div 10), Digits[(n % 10) + 1])

---------------------------------------------------------------------------
(* Python numbers *)

RECURSIVE Pow10(_)
Pow10(k) == IF k = 0 THEN 1 ELSE 10 * Pow10(k - 1)

RECURSIVE NatOfDigits(_)
NatOfDigits(s) ==
    IF s = <<>> THEN 0
    ELSE 10 * NatOfDigits(SubSeq(s, 1, Len(s) - 1)) + DigitVal(s[Len(s)])

\* the values extract_stat_value returns
None == [t |-> "None", m |-> 0, e |-> 0, s |-> <<>>]
Str(x) == [t |-> "str", m |-> 0, e |-> 0, s |-> x]

RECURSIVE Float(_, _)
\* the float m / 10^e
Float(m, e) ==
    IF e > 0 /\ m % 10 = 0 THEN Float(m \div 10, e - 1)
    ELSE [t |-> "float", m |-> m, e |-> e, s |-> <<>>]

\* float(s) for a string of digits with at most one ".": the number, or a
\* ValueError (ok = FALSE) for every other string of the model's alphabet
ParseFloat(s) ==
    LET dots == {i \in 1..Len(s) : s[i] = "."}
        digs == {i \in 1..Len(s) : IsDigit(s[i])}
        wellformed == /\ s # NoAttr /\ s # EmptyAPIAttr
                      /\ dots \cup digs = 1..Len(s)
                      /\ Cardinality(dots) <= 1
                      /\ Cardinality(digs) >= 1
        dot == IF dots = {} THEN Len(s) + 1 ELSE CHOOSE i \in dots : TRUE
        whole == SubSeq(s, 1, dot - 1)
        frac == SubSeq(s, dot + 1, Len(s))
    IN IF wellformed
       THEN [ok |-> TRUE, v |-> Float(NatOfDigits(whole \o frac), Len(frac))]
       ELSE [ok |-> FALSE, v |-> None]

\* int(s): the number, or a ValueError for a string that is not all digits
ParseInt(s) ==
    IF s # <<>> /\ s # NoAttr /\ s # EmptyAPIAttr /\ \A i \in 1..Len(s) : IsDigit(s[i])
    THEN [ok |-> TRUE, v |-> NatOfDigits(s)]
    ELSE [ok |-> FALSE, v |-> 0]

\* a < b raises TypeError unless both are floats or both are strings
Comparable(a, b) == a.t = b.t /\ a.t \in {"float", "str"}

\* a < b, for comparable a and b
PyLess(a, b) ==
    IF a.t = "float" THEN a.m * Pow10(b.e) < b.m * Pow10(a.e)
    ELSE StrLess(a.s, b.s)

\* x / 10^k for a float x
DivPow10(x, k) == Float(x.m, x.e + k)

---------------------------------------------------------------------------
(* is_percentage_stat, convert_percentage_value *)

percentage_stat_ids == {<<"5">>, <<"8">>, <<"1", "1">>}

is_percentage_stat(stat_id_or_index, stat_display) ==
    \/ stat_id_or_index \in percentage_stat_ids
    \/ (stat_display # <<>> /\ stat_display # NoAttr /\ Contains(stat_display, <<"%">>))

\* convert_percentage_value with the >= 100 band tested before the >= 1000 band
convert_percentage_value_BandOrder(raw_value) ==
    LET p == ParseFloat(raw_value)
        val == p.v
    IN IF ~p.ok THEN None
       ELSE IF PyLess(val, Float(1, 0)) THEN val
       ELSE IF ~PyLess(val, Float(100, 0)) THEN DivPow10(DivPow10(val, 1), 2)
       ELSE IF ~PyLess(val, Float(1000, 0)) THEN DivPow10(DivPow10(val, 2), 2)
       ELSE DivPow10(val, 2)

\* the float, or None on ValueError / TypeError
convert_percentage_value(raw_value) ==
    LET p == ParseFloat(raw_value)
        val == p.v
    IN IF ~p.ok THEN None
       ELSE IF PyLess(val, Float(1, 0)) THEN val
       ELSE IF ~PyLess(val, Float(1000, 0)) THEN DivPow10(DivPow10(val, 2), 2)
       ELSE IF ~PyLess(val, Float(100, 0)) THEN DivPow10(DivPow10(val, 1), 2)
       ELSE IF ~PyLess(val, Float(1, 0)) THEN DivPow10(val, 2)
       ELSE val

---------------------------------------------------------------------------
(* extract_stat_value *)

\* A Stat object of the provider's library: id, display and value are each a
\* string or NoAttr (the attribute is missing); value may be EmptyAPIAttr.
Stat(id, display, value) == [id |-> id, display |-> display, value |-> value]

\* read_stat_value without the test for the "/" placeholder
read_stat_value_NoPlaceholder(val, is_percentage) ==
    IF val = EmptyAPIAttr THEN None
    ELSE IF val = <<>> THEN None
    ELSE IF is_percentage THEN convert_percentage_value(val)
    ELSE LET p == ParseFloat(val)
         IN IF p.ok THEN p.v
            ELSE IF val # <<>> THEN Str(val) ELSE None

\* what extract_stat_value makes of the value attribute of the stat it found
read_stat_value(val, is_percentage) ==
    IF val = EmptyAPIAttr THEN None
    ELSE IF val = <<"/">> \/ val = <<>> THEN None
    ELSE IF is_percentage THEN convert_percentage_value(val)
    ELSE LET p == ParseFloat(val)
         IN IF p.ok THEN p.v
            ELSE IF val # <<>> THEN Str(val) ELSE None

\* the stats the loop over stats_list returns from: the id matches and the
\* value attribute is present
id_matches(stats_list, stat_id_or_index) ==
    {i \in 1..Len(stats_list) :
        /\ stats_list[i].id # NoAttr
        /\ stats_list[i].id = stat_id_or_index
        /\ stats_list[i].value # NoAttr}

\* lines 370-387: the first stat whose id matches decides
extract_by_id(stats_list, hits, is_percentage) ==
    read_stat_value(stats_list[CHOOSE i \in hits : \A j \in hits : i <= j].value,
                    is_percentage)

\* lines 389-411: the stat at index int(stat_id_or_index) decides
extract_by_index(stats_list, idx) ==
    IF idx.ok /\ 0 <= idx.v /\ idx.v < Len(stats_list)
    THEN IF stats_list[idx.v + 1].value # NoAttr
         THEN read_stat_value(stats_list[idx.v + 1].value,
                  /\ stats_list[idx.v + 1].display # NoAttr
                  /\ Contains(stats_list[idx.v + 1].display, <<"%">>))
         ELSE None
    ELSE None

extract_from(stats_list, stat_id_or_index, hits, is_percentage) ==
    IF hits # {}
    THEN extract_by_id(stats_list, hits, is_percentage)
    ELSE extract_by_index(stats_list, ParseInt(stat_id_or_index))

extract_stat_value(stats_list, stat_id_or_index, stat_display) ==
    IF stats_list = <<>> THEN None
    ELSE extract_from(stats_list, stat_id_or_index,
                      id_matches(stats_list, stat_id_or_index),
                      is_percentage_stat(stat_id_or_index, stat_display))

---------------------------------------------------------------------------
(* get_category_info_from_stats, is_lower_better_stat *)

CatInfo(id, name, index) == [id |-> id, name |-> name, index |-> index]

RECURSIVE category_info_from_NoException(_, _)
\* category_info_from without the "A/T" exception to the "/" filter
category_info_from_NoException(stats_list, idx) ==
    IF idx >= Len(stats_list) THEN <<>>
    ELSE LET stat == stats_list[idx + 1]
             rest == category_info_from_NoException(stats_list, idx + 1)
         IN IF stat.display # NoAttr /\ stat.display # <<>>
            THEN IF Contains(stat.display, <<"/">>)
                 THEN rest
                 ELSE <<CatInfo(IF stat.id # NoAttr THEN stat.id ELSE StrOfNat(idx),
                                stat.display, idx)>> \o rest
            ELSE rest

RECURSIVE category_info_from(_, _)
\* the loop of get_category_info_from_stats from 0-based position idx on
category_info_from(stats_list, idx) ==
    IF idx >= Len(stats_list) THEN <<>>
    ELSE LET stat == stats_list[idx + 1]
             rest == category_info_from(stats_list, idx + 1)
         IN IF stat.display # NoAttr /\ stat.display # <<>>
            THEN IF Contains(stat.display, <<"/">>) /\ stat.display # <<"A", "/", "T">>
                 THEN rest
                 ELSE <<CatInfo(IF stat.id # NoAttr THEN stat.id ELSE StrOfNat(idx),
                                stat.display, idx)>> \o rest
            ELSE rest

get_category_info_from_stats(stats_list) == category_info_from(stats_list, 0)

\* is_lower_better_stat with "to" accepted as a prefix or suffix without the
\* separating blank
is_lower_better_stat_NoBlank(category_name, stat_id) ==
    LET category_lower == Lower(category_name)
    IN \/ Contains(category_lower, <<"t","u","r","n","o","v","e","r">>)
       \/ category_lower \in {<<"t","o">>, <<"t","o","v">>}
       \/ StartsWith(category_lower, <<"t","o">>)
       \/ EndsWith(category_lower, <<"t","o">>)
       \/ (stat_id # <<>> /\ stat_id = <<"1","9">>)

\* lines 419-439
is_lower_better_stat(category_name, stat_id) ==
    LET category_lower == Lower(category_name)
    IN \/ Contains(category_lower, <<"t","u","r","n","o","v","e","r">>)
       \/ category_lower \in {<<"t","o">>, <<"t","o","v">>}
       \/ StartsWith(category_lower, <<"t","o"," ">>)
       \/ EndsWith(category_lower, <<" ","t","o">>)
       \/ (stat_id # <<>> /\ stat_id = <<"1","9">>)

---------------------------------------------------------------------------
(* The pure functions, each called on inputs drawn from a bounded set *)

\* all strings over the characters A of length at most n
StringsOver(A, n) == UNION {[1..k -> A] : k \in 0..n}

\* the variables of the comparison run, unused while a pure function is called
NoRun ==
    /\ all_teams = <<>> /\ selected_team = 0 /\ matchups = <<>>
    /\ all_team_stats = <<>> /\ categories_info = <<>> /\ cat_idx = 0
    /\ rows = <<>> /\ matchup_results = <<>> /\ error = "none"

RunVars == <<all_teams, selected_team, matchups, all_team_stats,
             categories_info, cat_idx, rows, matchup_results, error>>

\* ---- convert_percentage_value
PctChars == {"0", "1", "4", "5", "9", ".", "x"}

InitPct ==
    /\ NoRun
    /\ pc = "call"
    /\ \E s \in StringsOver(PctChars, MaxRawLen) : args = [raw_value |-> s]
    /\ ret = None

CallConvertPercentage ==
    /\ pc = "call"
    /\ ret' = convert_percentage_value(args.raw_value)
    /\ pc' = "returned"
    /\ UNCHANGED <<RunVars, args>>

SpecPct == InitPct /\ [][CallConvertPercentage]_vars

\* ---- extract_stat_value
ExtractIds == {NoAttr, <<"0">>, <<"1">>}
ExtractDisplays == {<<"T","O">>, <<"F","G","%">>}
ExtractValues == {NoAttr, EmptyAPIAttr, <<>>, <<"/">>, <<"x">>, <<"5">>}
ExtractStats == {Stat(i, d, v) : i \in ExtractIds, d \in ExtractDisplays, v \in ExtractValues}
ExtractQueries == {<<"0">>, <<"1">>, <<"5">>}

InitExtract ==
    /\ NoRun
    /\ pc = "call"
    /\ \E l \in UNION {[1..k -> ExtractStats] : k \in 0..MaxStats},
          q \in ExtractQueries, d \in ExtractDisplays :
            args = [stats_list |-> l, stat_id_or_index |-> q, stat_display |-> d]
    /\ ret = None

CallExtractStatValue ==
    /\ pc = "call"
    /\ ret' = extract_stat_value(args.stats_list, args.stat_id_or_index, args.stat_display)
    /\ pc' = "returned"
    /\ UNCHANGED <<RunVars, args>>

SpecExtract == InitExtract /\ [][CallExtractStatValue]_vars

\* ---- get_category_info_from_stats
SampleStats ==
    {Stat(<<"1","2">>, d, <<"1">>) :
        d \in {NoAttr, <<>>, <<"P","T","S">>, <<"F","G","M","/","F","G","A">>,
               <<"A","/","T">>, <<"T","O">>}}
    \cup {Stat(NoAttr, <<"P","T","S">>, <<"1">>)}

InitCat ==
    /\ NoRun
    /\ pc = "call"
    /\ \E l \in UNION {[1..k -> SampleStats] : k \in 0..MaxSample} :
            args = [stats_list |-> l]
    /\ ret = <<>>

CallGetCategoryInfo ==
    /\ pc = "call"
    /\ ret' = get_category_info_from_stats(args.stats_list)
    /\ pc' = "returned"
    /\ UNCHANGED <<RunVars, args>>

SpecCat == InitCat /\ [][CallGetCategoryInfo]_vars

---------------------------------------------------------------------------
(* Python dicts and lists *)

\* d[k] = v on a dict kept as a sequence of [key, val]: an existing key keeps
\* its place, a new key goes to the end
DictSet(d, k, v) ==
    IF \E i \in 1..Len(d) : d[i].key = k
    THEN [i \in 1..Len(d) |-> IF d[i].key = k THEN [key |-> k, val |-> v] ELSE d[i]]
    ELSE Append(d, [key |-> k, val |-> v])

DictHas(d, k) == \E i \in 1..Len(d) : d[i].key = k

\* d.get(k): the value, or <<>> (None and an empty list are equally falsy to
\* the caller at line 498)
DictGet(d, k) ==
    IF DictHas(d, k) THEN d[CHOOSE i \in 1..Len(d) : d[i].key = k].val ELSE <<>>

RECURSIVE SelectBy(_, _)
\* the elements of s at the positions where keep is TRUE, in order
SelectBy(s, keep) ==
    IF s = <<>> THEN <<>>
    ELSE (IF Head(keep) THEN <<Head(s)>> ELSE <<>>) \o SelectBy(Tail(s), Tail(keep))

\* x goes before e in sorted(..., key=value, reverse=reverse)
SortsBefore(x, e, reverse) ==
    IF reverse THEN PyLess(e.value, x.value) ELSE PyLess(x.value, e.value)

RECURSIVE InsertSorted(_, _, _)
\* x put into the sorted list s behind every element it does not sort before
InsertSorted(s, x, reverse) ==
    IF s = <<>> THEN <<x>>
    ELSE IF SortsBefore(x, Head(s), reverse) THEN <<x>> \o s
    ELSE <<Head(s)>> \o InsertSorted(Tail(s), x, reverse)

Reverse(s) == [i \in 1..Len(s) |-> s[Len(s) + 1 - i]]

RECURSIVE sorted_ascending(_)
sorted_ascending(values) ==
    IF values = <<>> THEN <<>>
    ELSE InsertSorted(sorted_ascending(SubSeq(values, 1, Len(values) - 1)),
                      values[Len(values)], FALSE)

\* a descending sort made by reversing the ascending one: equal keys come
\* out in reverse order
sorted_ReversedAscending(values, reverse) ==
    IF reverse THEN Reverse(sorted_ascending(values)) ELSE sorted_ascending(values)

RECURSIVE sorted(_, _)
\* sorted(values, key=lambda x: x[1], reverse=reverse): a stable sort, also
\* when reverse is set (equal keys keep their order in values)
sorted(values, reverse) ==
    IF values = <<>> THEN <<>>
    ELSE InsertSorted(sorted(SubSeq(values, 1, Len(values) - 1), reverse),
                      values[Len(values)], reverse)

\* sorted raises TypeError when it has to compare a float with a str
SortRaises(values) ==
    \E i, j \in 1..Len(values) : ~Comparable(values[i].value, values[j].value)

---------------------------------------------------------------------------
(* get_all_team_stats_from_matchups *)

Team(team_id) == [team_id |-> team_id, name |-> <<"T">> \o StrOfNat(team_id)]

Matchup(team1, team1_stats, team2, team2_stats) ==
    [team1 |-> team1, team1_stats |-> team1_stats,
     team2 |-> team2, team2_stats |-> team2_stats]

\* lines 229-234 and 240-245: a team's stats are stored when there are any
store_team_stats(team_stats_dict, team, stats) ==
    IF stats # <<>> THEN DictSet(team_stats_dict, team.team_id, stats)
    ELSE team_stats_dict

RECURSIVE team_stats_from(_, _)
\* the loop over week_obj.matchups, from the dict built so far
team_stats_from(ms, team_stats_dict) ==
    IF ms = <<>> THEN team_stats_dict
    ELSE team_stats_from(Tail(ms),
             store_team_stats(
                 store_team_stats(team_stats_dict, Head(ms).team1, Head(ms).team1_stats),
                 Head(ms).team2, Head(ms).team2_stats))

get_all_team_stats_from_matchups(ms) == team_stats_from(ms, <<>>)

---------------------------------------------------------------------------
(* compare_teams *)

\* team_lookup = {team.team_id: team for team in all_teams}
InTeamLookup(teams, team_id) == \E i \in 1..Len(teams) : teams[i].team_id = team_id

TeamLookup(teams, team_id) ==
    teams[CHOOSE i \in 1..Len(teams) : teams[i].team_id = team_id
                                       /\ \A j \in i+1..Len(teams) : teams[j].team_id # team_id]

\* get_color_for_performance with the top tier above 0.7 only
get_color_for_performance_StrictTop(better_than, total_teams) ==
    IF total_teams = 0 THEN "RESET"
    ELSE IF better_than * 10 > 7 * total_teams THEN "GREEN"
    ELSE IF better_than * 10 < 3 * total_teams THEN "RED"
    ELSE "YELLOW"

\* the tiers of get_color_for_performance
get_color_for_performance(better_than, total_teams) ==
    IF total_teams = 0 THEN "RESET"
    ELSE IF better_than * 10 >= 7 * total_teams THEN "GREEN"
    ELSE IF better_than * 10 < 3 * total_teams THEN "RED"
    ELSE "YELLOW"

\* (team_id, team_name, value) of every team of the stats dict, in dict order
team_values(teams, team_stats, stat_id, category_name) ==
    [i \in 1..Len(team_stats) |->
        [team_id |-> team_stats[i].key,
         team_name |-> IF InTeamLookup(teams, team_stats[i].key)
                       THEN TeamLookup(teams, team_stats[i].key).name
                       ELSE <<>>,
         value |-> extract_stat_value(team_stats[i].val, stat_id, category_name)]]

\* all_values: the teams that are on the roster and have a value
select_all_values(teams, values) ==
    SelectBy(values, [i \in 1..Len(values) |->
                        InTeamLookup(teams, values[i].team_id) /\ values[i].value # None])

\* select_other_values that keeps the selected team
select_other_values_All(sel_id, all_values) == all_values

\* other_values: all_values without the selected team
select_other_values(sel_id, all_values) ==
    SelectBy(all_values, [i \in 1..Len(all_values) |-> all_values[i].team_id # sel_id])

\* count_better_than with ties counted as beaten
count_better_than_WithTies(selected_value, other_values, higher_is_better) ==
    Cardinality({i \in 1..Len(other_values) :
        IF higher_is_better
        THEN ~PyLess(selected_value, other_values[i].value)
        ELSE ~PyLess(other_values[i].value, selected_value)})

\* count_better_than that stops at the first other team that is not beaten
count_better_than_LeadingRun(selected_value, other_values, higher_is_better) ==
    Cardinality({i \in 1..Len(other_values) :
        \A j \in 1..i :
            IF higher_is_better
            THEN PyLess(other_values[j].value, selected_value)
            ELSE PyLess(selected_value, other_values[j].value)})

\* the number of other teams the selected value is strictly better than
count_better_than(selected_value, other_values, higher_is_better) ==
    Cardinality({i \in 1..Len(other_values) :
        IF higher_is_better
        THEN PyLess(other_values[i].value, selected_value)
        ELSE PyLess(selected_value, other_values[i].value)})

NotAvailableRow(category_name) ==
    [category |-> category_name, available |-> FALSE, selected_value |-> None,
     better_than |-> 0, others |-> 0, color |-> "-",
     best_team |-> <<>>, best_value |-> None, worst_team |-> <<>>, worst_value |-> None]

\* lines 555-572: the row of a ranked category
ranked_row(category_name, selected_value, sorted_all_values, others, better_than) ==
    [category |-> category_name, available |-> TRUE,
     selected_value |-> selected_value,
     better_than |-> IF others = 0 THEN 0 ELSE better_than,
     others |-> others,
     color |-> IF others = 0 THEN "-" ELSE get_color_for_performance(better_than, others),
     best_team |-> sorted_all_values[1].team_name,
     best_value |-> sorted_all_values[1].value,
     worst_team |-> sorted_all_values[Len(sorted_all_values)].team_name,
     worst_value |-> sorted_all_values[Len(sorted_all_values)].value]

\* category_row without the test of the selected value at line 521: the
\* comparison of None with a float at line 565 raises TypeError
category_row_NoneCompared(category_name, selected_value, all_values, other_values, higher_is_better) ==
    IF all_values = <<>>
    THEN [raised |-> FALSE, row |-> NotAvailableRow(category_name)]
    ELSE IF SortRaises(all_values) \/ (selected_value = None /\ other_values # <<>>)
    THEN [raised |-> TRUE, row |-> NotAvailableRow(category_name)]
    ELSE [raised |-> FALSE,
          row |-> ranked_row(category_name, selected_value,
                             sorted(all_values, higher_is_better), Len(other_values),
                             count_better_than(selected_value, other_values,
                                               higher_is_better))]

\* lines 521-572, given the values of the category
category_row(category_name, selected_value, all_values, other_values, higher_is_better) ==
    IF selected_value = None
    THEN [raised |-> FALSE, row |-> NotAvailableRow(category_name)]
    ELSE IF all_values = <<>>
    THEN [raised |-> FALSE, row |-> NotAvailableRow(category_name)]
    ELSE IF SortRaises(all_values)
    THEN [raised |-> TRUE, row |-> NotAvailableRow(category_name)]
    ELSE [raised |-> FALSE,
          row |-> ranked_row(category_name, selected_value,
                             sorted(all_values, higher_is_better), Len(other_values),
                             count_better_than(selected_value, other_values,
                                               higher_is_better))]

category_values(sel_id, teams, team_stats, stat_id, category_name, all_values) ==
    category_row(category_name,
                 extract_stat_value(DictGet(team_stats, sel_id), stat_id, category_name),
                 all_values,
                 select_other_values(sel_id, all_values),
                 ~is_lower_better_stat(category_name, stat_id))

\* line 514: the id of the category, or its index when the id is empty
category_stat_id(cat_info) ==
    IF cat_info.id # <<>> THEN cat_info.id ELSE StrOfNat(cat_info.index)

\* one pass of the loop over categories_info: the row printed, or the
\* TypeError raised by a comparison of a float with a str
compare_category(sel_id, teams, team_stats, cat_info) ==
    category_values(sel_id, teams, team_stats, category_stat_id(cat_info), cat_info.name,
        select_all_values(teams,
            team_values(teams, team_stats, category_stat_id(cat_info), cat_info.name)))

---------------------------------------------------------------------------
(* compare_head_to_head *)

\* category_outcome with every category taken as higher-is-better
category_outcome_NoPolarity(selected_value, opponent_value, higher_is_better) ==
    IF PyLess(opponent_value, selected_value) THEN "W"
    ELSE IF PyLess(selected_value, opponent_value) THEN "L"
    ELSE "T"

\* the outcome of one category against one opponent
category_outcome(selected_value, opponent_value, higher_is_better) ==
    IF higher_is_better
    THEN IF PyLess(opponent_value, selected_value) THEN "W"
         ELSE IF PyLess(selected_value, opponent_value) THEN "L"
         ELSE "T"
    ELSE IF PyLess(selected_value, opponent_value) THEN "W"
         ELSE IF PyLess(opponent_value, selected_value) THEN "L"
         ELSE "T"

\* lines 653 and 660: the category is left out of the tally
category_skipped(stat_id, selected_value, opponent_value) ==
    stat_id = <<>> \/ selected_value = None \/ opponent_value = None

\* category_result with a skipped category recorded as a tie
category_result_SkipIsTie(cat_info, selected_value, opponent_value) ==
    IF category_skipped(cat_info.id, selected_value, opponent_value)
    THEN <<[name |-> cat_info.name, code |-> "T"]>>
    ELSE <<[name |-> cat_info.name,
            code |-> category_outcome(selected_value, opponent_value,
                         ~is_lower_better_stat(cat_info.name, cat_info.id))]>>

\* lines 660-685: what one category adds to category_results
category_result(cat_info, selected_value, opponent_value) ==
    IF category_skipped(cat_info.id, selected_value, opponent_value)
    THEN <<>>
    ELSE <<[name |-> cat_info.name,
            code |-> category_outcome(selected_value, opponent_value,
                         ~is_lower_better_stat(cat_info.name, cat_info.id))]>>

RECURSIVE category_results_from(_, _, _)
\* the loop over categories_info for one opponent: the (name, outcome) list
category_results_from(selected_stats, opponent_stats, cats) ==
    IF cats = <<>> THEN <<>>
    ELSE category_result(Head(cats),
             extract_stat_value(selected_stats, Head(cats).id, Head(cats).name),
             extract_stat_value(opponent_stats, Head(cats).id, Head(cats).name))
         \o category_results_from(selected_stats, opponent_stats, Tail(cats))

\* a comparison of the category raises TypeError
outcome_raises(cat_info, selected_value, opponent_value) ==
    /\ ~category_skipped(cat_info.id, selected_value, opponent_value)
    /\ ~Comparable(selected_value, opponent_value)

head_to_head_raises(selected_stats, opponent_stats, cats) ==
    \E k \in 1..Len(cats) :
        outcome_raises(cats[k],
            extract_stat_value(selected_stats, cats[k].id, cats[k].name),
            extract_stat_value(opponent_stats, cats[k].id, cats[k].name))

CountCode(category_results, code) ==
    Cardinality({k \in 1..Len(category_results) : category_results[k].code = code})

\* lines 688-696
matchup_result(team_id, category_results) ==
    [team |-> team_id,
     wins |-> CountCode(category_results, "W"),
     losses |-> CountCode(category_results, "L"),
     category_results |-> category_results]

\* is_opponent without the test for the selected team
is_opponent_WithSelected(sel_id, teams, team_id) == InTeamLookup(teams, team_id)

\* lines 635-639: the teams of the stats dict the loop makes a result for
is_opponent(sel_id, teams, team_id) ==
    team_id # sel_id /\ InTeamLookup(teams, team_id)

select_opponents(sel_id, teams, team_stats) ==
    SelectBy(team_stats,
             [i \in 1..Len(team_stats) |-> is_opponent(sel_id, teams, team_stats[i].key)])

\* matchup_results.sort(key=lambda x: x['wins'], reverse=True)
unkey(keyed) == [i \in 1..Len(keyed) |-> keyed[i].result]

\* sort_by_wins with equal wins ordered by fewer losses
sort_by_wins_ThenLosses(results) ==
    unkey(sorted([k \in 1..Len(results) |->
                     [value |-> Float(results[k].wins * 10 + (9 - results[k].losses), 0),
                      result |-> results[k]]],
                 TRUE))

sort_by_wins(results) ==
    unkey(sorted([k \in 1..Len(results) |->
                     [value |-> Float(results[k].wins, 0), result |-> results[k]]],
                 TRUE))

head_to_head_results(selected_stats, opponents, cats) ==
    IF \E i \in 1..Len(opponents) :
          head_to_head_raises(selected_stats, opponents[i].val, cats)
    THEN [raised |-> TRUE, results |-> <<>>]
    ELSE [raised |-> FALSE,
          results |-> sort_by_wins(
              [i \in 1..Len(opponents) |->
                  matchup_result(opponents[i].key,
                      category_results_from(selected_stats, opponents[i].val, cats))])]

compare_head_to_head(sel_id, selected_stats, teams, team_stats, cats) ==
    head_to_head_results(selected_stats, select_opponents(sel_id, teams, team_stats), cats)

---------------------------------------------------------------------------
(* The comparison run: compare_teams on one week's data *)

PTS == <<"P", "T", "S">>
TO == <<"T", "O">>
PTS_ID == <<"1", "2">>
TO_ID == <<"1", "9">>

\* the numeric raw values "1" .. "MaxVal"
NumRaw == {StrOfNat(n) : n \in 1..MaxVal}

\* a team's stats of the week: nothing, points and turnovers, or turnovers only
StatLists ==
    {<<>>}
    \cup {<<Stat(PTS_ID, PTS, v), Stat(TO_ID, TO, w)>> :
             v \in {<<>>, <<"x">>, <<"1">>, <<"2">>}, w \in NumRaw}
    \cup {<<Stat(TO_ID, TO, <<"1">>)>>}

Roster3 == <<Team(1), Team(2), Team(3)>>
Roster4 == <<Team(1), Team(2), Team(3), Team(4)>>

\* the fourth team: on the roster or not; with numbers, with no stats, or
\* with a ratio stat only
FourthTeams ==
    {[roster |-> Roster4, stats |-> <<Stat(PTS_ID, PTS, <<"1">>), Stat(TO_ID, TO, <<"2">>)>>],
     [roster |-> Roster3, stats |-> <<Stat(PTS_ID, PTS, <<"1">>), Stat(TO_ID, TO, <<"2">>)>>],
     [roster |-> Roster4, stats |-> <<>>],
     [roster |-> Roster3,
      stats |-> <<Stat(<<"9">>, <<"F","G","M","/","F","G","A">>, <<"3","/","7">>)>>]}

Init ==
    /\ pc = "start"
    /\ selected_team \in {1, 2, 3}
    /\ \E l1, l2, l3 \in StatLists, fourth \in FourthTeams :
          /\ all_teams = fourth.roster
          /\ matchups = <<Matchup(Team(1), l1, Team(2), l2),
                          Matchup(Team(3), l3, Team(4), fourth.stats)>>
    /\ all_team_stats = <<>>
    /\ categories_info = <<>>
    /\ cat_idx = 0
    /\ rows = <<>>
    /\ matchup_results = <<>>
    /\ error = "none"
    /\ args = <<>>
    /\ ret = None

Inputs == <<all_teams, selected_team, matchups, args, ret>>

\* line 471
GetAllTeamStats ==
    /\ pc = "start"
    /\ all_team_stats' = get_all_team_stats_from_matchups(matchups)
    /\ pc' = "fetched"
    /\ UNCHANGED <<Inputs, categories_info, cat_idx, rows, matchup_results, error>>

\* lines 473-475
ReturnNoStats ==
    /\ pc = "fetched"
    /\ all_team_stats = <<>>
    /\ pc' = "returned"
    /\ UNCHANGED <<Inputs, all_team_stats, categories_info, cat_idx, rows,
                   matchup_results, error>>

\* the first non-empty stats list of the dict (every list stored is non-empty)
sample_stats == all_team_stats[1].val

\* lines 479-492
ReturnNoCategories ==
    /\ pc = "fetched"
    /\ all_team_stats # <<>>
    /\ get_category_info_from_stats(sample_stats) = <<>>
    /\ pc' = "returned"
    /\ UNCHANGED <<Inputs, all_team_stats, categories_info, cat_idx, rows,
                   matchup_results, error>>

\* lines 495-501
ReturnNoSelectedStats ==
    /\ pc = "fetched"
    /\ all_team_stats # <<>>
    /\ get_category_info_from_stats(sample_stats) # <<>>
    /\ DictGet(all_team_stats, selected_team) = <<>>
    /\ categories_info' = get_category_info_from_stats(sample_stats)
    /\ pc' = "returned"
    /\ UNCHANGED <<Inputs, all_team_stats, cat_idx, rows, matchup_results, error>>

\* lines 488-508: the categories are resolved and the loop starts
StartComparison ==
    /\ pc = "fetched"
    /\ all_team_stats # <<>>
    /\ get_category_info_from_stats(sample_stats) # <<>>
    /\ DictGet(all_team_stats, selected_team) # <<>>
    /\ categories_info' = get_category_info_from_stats(sample_stats)
    /\ cat_idx' = 1
    /\ pc' = "rows"
    /\ UNCHANGED <<Inputs, all_team_stats, rows, matchup_results, error>>

\* lines 510-602: one pass of the loop over categories_info
CompareCategory ==
    /\ pc = "rows"
    /\ cat_idx <= Len(categories_info)
    /\ \E r \in {compare_category(selected_team, all_teams, all_team_stats,
                                   categories_info[cat_idx])} :
          IF r.raised
          THEN /\ error' = "TypeError"
               /\ pc' = "raised"
               /\ UNCHANGED <<rows, cat_idx>>
          ELSE /\ rows' = Append(rows, r.row)
               /\ cat_idx' = cat_idx + 1
               /\ UNCHANGED <<error, pc>>
    /\ UNCHANGED <<Inputs, all_team_stats, categories_info, matchup_results>>

\* line 611 and lines 614-744
CompareHeadToHead ==
    /\ pc = "rows"
    /\ cat_idx > Len(categories_info)
    /\ \E r \in {compare_head_to_head(selected_team,
                                       DictGet(all_team_stats, selected_team),
                                       all_teams, all_team_stats, categories_info)} :
          IF r.raised
          THEN /\ error' = "TypeError"
               /\ pc' = "raised"
               /\ UNCHANGED matchup_results
          ELSE /\ matchup_results' = r.results
               /\ pc' = "done"
               /\ UNCHANGED error
    /\ UNCHANGED <<Inputs, all_team_stats, categories_info, cat_idx, rows>>

Next ==
    \/ GetAllTeamStats
    \/ ReturnNoStats
    \/ ReturnNoCategories
    \/ ReturnNoSelectedStats
    \/ StartComparison
    \/ CompareCategory
    \/ CompareHeadToHead

Spec == Init /\ [][Next]_vars

---------------------------------------------------------------------------
(* Claims about the pure functions *)

\* x * k for a float x and a natural number k
TimesNat(x, k) == Float(x.m * k, x.e)

\* C6: convert_percentage_value maps a numeric raw value v to a fraction by
\* scale band: v < 1 is returned unchanged, 1 <= v < 100 gives v/100,
\* 100 <= v < 1000 gives (v/10)/100, v >= 1000 gives (v/100)/100.
\* (SpecPct; decimal arithmetic, so the quotients are exact.)
C6_PercentageBands ==
    pc = "returned" =>
        LET p == ParseFloat(args.raw_value)
            v == p.v
            lt(n) == PyLess(v, Float(n, 0))
        IN p.ok =>
            /\ ret.t = "float"
            /\ lt(1) => ret = v
            /\ (~lt(1) /\ lt(100)) => TimesNat(ret, 100) = v
            /\ (~lt(100) /\ lt(1000)) => TimesNat(ret, 1000) = v
            /\ ~lt(1000) => TimesNat(ret, 10000) = v

\* C6 witness: 4540 has been converted to 0.454
C6_Witness ==
    /\ pc = "returned"
    /\ args.raw_value = <<"4", "5", "4", "0">>
    /\ ret = Float(454, 3)

\* the raw values extract_stat_value treats as missing
MissingRaw == {EmptyAPIAttr, <<>>, <<"/">>}

\* the stats of l extract_stat_value can return from on the id-match path
IdMatches(l, q) == {i \in 1..Len(l) : l[i].id = q /\ l[i].value # NoAttr}

\* C4: for every stats list that holds no record whose id equals the
\* category's id, extract_stat_value returns None. (SpecExtract)
C4_NoRecordIsNone ==
    pc = "returned" =>
        ((\A i \in 1..Len(args.stats_list) :
              args.stats_list[i].id # args.stat_id_or_index)
         => ret = None)

\* C7: extract_stat_value returns None whenever the matching stat's raw value
\* is an empty APIAttr, the empty string or "/", for percentage and other
\* categories, on the id-match path and on the index-fallback path. (SpecExtract)
C7_MissingValueIsNone ==
    pc = "returned" =>
        LET l == args.stats_list
            q == args.stat_id_or_index
            hits == IdMatches(l, q)
            idx == ParseInt(q)
        IN /\ \A i \in hits :
                ((\A j \in hits : i <= j) /\ l[i].value \in MissingRaw) => ret = None
           /\ (hits = {} /\ idx.ok /\ idx.v < Len(l) /\ l[idx.v + 1].value \in MissingRaw)
                => ret = None

\* C7 witness: the index fallback has found the placeholder "/" in a
\* percentage stat and None was returned
C7_Witness ==
    /\ pc = "returned"
    /\ args.stats_list = <<Stat(NoAttr, <<"F","G","%">>, <<"/">>)>>
    /\ args.stat_id_or_index = <<"0">>
    /\ ret = None

HasName(stat) == stat.display # NoAttr

SlashFree(stat) ==
    HasName(stat) /\ (~Contains(stat.display, <<"/">>) \/ stat.display = <<"A","/","T">>)

SlashFreeNonEmpty(stat) == SlashFree(stat) /\ stat.display # <<>>

NamesOf(cats) == [i \in 1..Len(cats) |-> cats[i].name]

DisplaysOf(l) == [i \in 1..Len(l) |-> l[i].display]

\* C8 as stated: get_category_info_from_stats returns, in source order,
\* exactly the stats whose display name does not contain "/" plus those
\* whose display name is exactly "A/T". (SpecCat)
C8_Original ==
    pc = "returned" =>
        NamesOf(ret) = DisplaysOf(SelectSeq(args.stats_list, SlashFree))

\* C8 amended: ... exactly the stats whose display name is not empty and
\* does not contain "/", plus those named "A/T", in source order; each
\* category carries the 0-based position of its stat in the sample.
C8_CategoriesKept ==
    pc = "returned" =>
        /\ NamesOf(ret) = DisplaysOf(SelectSeq(args.stats_list, SlashFreeNonEmpty))
        /\ \A i \in 1..Len(ret) : args.stats_list[ret[i].index + 1].display = ret[i].name
        /\ \A i, j \in 1..Len(ret) : i < j => ret[i].index < ret[j].index

\* C8 witness: the sample PTS, FGM/FGA, A/T, TO has resolved to PTS, A/T, TO
C8_Witness ==
    /\ pc = "returned"
    /\ DisplaysOf(args.stats_list) =
          <<<<"P","T","S">>, <<"F","G","M","/","F","G","A">>, <<"A","/","T">>, <<"T","O">>>>
    /\ NamesOf(ret) = <<<<"P","T","S">>, <<"A","/","T">>, <<"T","O">>>>

---------------------------------------------------------------------------
(* Claims about the comparison run *)

RosterIds == {all_teams[i].team_id : i \in 1..Len(all_teams)}

\* the roster teams other than the selected team
Opponents == RosterIds \ {selected_team}

\* the team's stats of the week were delivered with some matchup
HasWeekStats(t) ==
    \E i \in 1..Len(matchups) :
        \/ (matchups[i].team1.team_id = t /\ matchups[i].team1_stats # <<>>)
        \/ (matchups[i].team2.team_id = t /\ matchups[i].team2_stats # <<>>)

\* the comparison matrix: the team's value of the category
ValueOf(t, cat_info) ==
    extract_stat_value(DictGet(all_team_stats, t), cat_info.id, cat_info.name)

\* the polarity of the run's categories: turnovers are lower-is-better
LowerIsBetter(cat_info) == cat_info.name = TO

\* a is strictly worse than b under the category's polarity
Worse(a, b, cat_info) ==
    IF LowerIsBetter(cat_info) THEN PyLess(b, a) ELSE PyLess(a, b)

\* the category's column of the comparison matrix
Column(cat_info) == [t \in RosterIds |-> ValueOf(t, cat_info)]

\* the ranked teams that hold the value v in the column col
Holders(col, v) == {t \in DOMAIN col : col[t] # None /\ col[t] = v}

\* position of a team in the stats dict (its encounter order)
DictPos(t) == CHOOSE i \in 1..Len(all_team_stats) : all_team_stats[i].key = t

\* C1: in every ranked row the "opponents beaten" count is the number of
\* teams other than the selected team, with a value, whose value is strictly
\* worse than the selected team's under the category's polarity; an equal
\* value is never counted.
C1_OpponentsBeaten ==
    \A k \in 1..Len(rows) :
        rows[k].available =>
            LET col == Column(categories_info[k])
            IN rows[k].better_than =
                  Cardinality({t \in Opponents :
                      /\ col[t] # None
                      /\ Worse(col[t], col[selected_team], categories_info[k])})

\* C1 witness: a turnover row where the selected team beats one opponent,
\* loses to one and ties with one, and 1 is reported (selected=2 against 1, 3, 2)
C1_Witness ==
    \E k \in 1..Len(rows) :
        /\ rows[k].available /\ rows[k].category = TO
        /\ rows[k].better_than = 1 /\ rows[k].others = 3
        /\ \E t \in Opponents : ValueOf(t, categories_info[k]) = rows[k].selected_value
        /\ \E t \in Opponents :
              /\ ValueOf(t, categories_info[k]) # None
              /\ PyLess(ValueOf(t, categories_info[k]), rows[k].selected_value)

ResultEntries(r, cat_info) ==
    {k \in 1..Len(r.category_results) : r.category_results[k].name = cat_info.name}

ExpectedCode(sv, ov, cat_info) ==
    IF Worse(ov, sv, cat_info) THEN "W"
    ELSE IF Worse(sv, ov, cat_info) THEN "L"
    ELSE "T"

\* C2: in the head-to-head tally a category where either side's value is
\* None adds no entry; otherwise the outcome is W when the selected value is
\* strictly better under the category's polarity, L when strictly worse and
\* T when the two are equal.
C2_HeadToHeadOutcome ==
    pc = "done" =>
        \A i \in 1..Len(matchup_results), c \in 1..Len(categories_info) :
            LET r == matchup_results[i]
                cat == categories_info[c]
                sv == ValueOf(selected_team, cat)
                ov == ValueOf(r.team, cat)
                entries == ResultEntries(r, cat)
            IN IF sv = None \/ ov = None
               THEN entries = {}
               ELSE /\ Cardinality(entries) = 1
                    /\ \A k \in entries :
                          /\ r.category_results[k].code = ExpectedCode(sv, ov, cat)
                          /\ (r.category_results[k].code = "T") <=> (sv = ov)

\* C2 witness: one opponent tied on points and lost on turnovers to a lower
\* selected value, another opponent had a category skipped
C2_Witness ==
    /\ pc = "done"
    /\ \E i \in 1..Len(matchup_results) :
          matchup_results[i].category_results =
              <<[name |-> PTS, code |-> "T"], [name |-> TO, code |-> "W"]>>
    /\ \E i \in 1..Len(matchup_results) :
          Len(matchup_results[i].category_results) = 1

ResultTeams == {matchup_results[i].team : i \in 1..Len(matchup_results)}

\* C3 as stated: the report holds exactly one result for every roster member
\* except the selected team, whether or not the team has a stats entry.
C3_Original ==
    pc = "done" =>
        /\ ResultTeams = Opponents
        /\ Len(matchup_results) = Cardinality(Opponents)

\* C3 amended: the report holds exactly one result for every roster member,
\* except the selected team, whose stats of the week were delivered (a team
\* without a stats entry has no result).
C3_ResultPerOpponentWithStats ==
    pc = "done" =>
        /\ ResultTeams = {t \in Opponents : HasWeekStats(t)}
        /\ Len(matchup_results) = Cardinality(ResultTeams)

\* C3 witness: the report is out, one roster member has no stats and the
\* two others have a result each
C3_Witness ==
    /\ pc = "done"
    /\ \E t \in Opponents : ~HasWeekStats(t)
    /\ Len(matchup_results) = 2

\* the teams whose raw points value is a non-empty, non-numeric string
BadValueTeams ==
    {t \in RosterIds :
        \E i \in 1..Len(DictGet(all_team_stats, t)) :
            LET stat == DictGet(all_team_stats, t)[i]
            IN /\ ~is_percentage_stat(stat.id, stat.display)
               /\ stat.value \notin MissingRaw
               /\ ~ParseFloat(stat.value).ok}

\* C5: with a single team's raw value of a non-percentage category
\* non-numeric, compare_teams and compare_head_to_head still complete
\* without raising.
C5_Resilient ==
    Cardinality(BadValueTeams) = 1 => pc # "raised"

\* C9: in every ranked row the best team holds the most favourable and the
\* worst team the least favourable value among all teams with a value; among
\* teams with equal values the encounter order decides (stable sort): best is
\* the first team met with the best value, worst the last met with the worst.
C9_BestAndWorst ==
    \A k \in 1..Len(rows) :
        rows[k].available =>
            LET cat == categories_info[k]
                col == Column(cat)
                best == Holders(col, rows[k].best_value)
                worst == Holders(col, rows[k].worst_value)
            IN /\ \A t \in RosterIds :
                    col[t] # None =>
                        /\ ~Worse(rows[k].best_value, col[t], cat)
                        /\ ~Worse(col[t], rows[k].worst_value, cat)
               /\ \E b \in best :
                    /\ rows[k].best_team = Team(b).name
                    /\ \A t \in best : DictPos(b) <= DictPos(t)
               /\ \E w \in worst :
                    /\ rows[k].worst_team = Team(w).name
                    /\ \A t \in worst : DictPos(t) <= DictPos(w)

\* C9 witness: turnovers over four ranked teams with a best of 1 and a worst
\* of 3, the worst value held by two teams
C9_Witness ==
    \E k \in 1..Len(rows) :
        /\ rows[k].available /\ rows[k].category = TO
        /\ rows[k].others = 3
        /\ rows[k].best_value = Float(1, 0)
        /\ rows[k].worst_value = Float(3, 0)
        /\ Cardinality(Holders(Column(categories_info[k]), rows[k].worst_value)) = 2

Tally(r) == r.wins + r.losses + CountCode(r.category_results, "T")

\* C10: for every opponent wins + losses + ties <= the number of resolved
\* categories, with equality exactly when no category was skipped for a None
\* value on either side.
C10_TallyBound ==
    pc = "done" =>
        \A i \in 1..Len(matchup_results) :
            /\ Tally(matchup_results[i]) <= Len(categories_info)
            /\ (Tally(matchup_results[i]) = Len(categories_info))
                 <=> (\A c \in 1..Len(categories_info) :
                         /\ ValueOf(selected_team, categories_info[c]) # None
                         /\ ValueOf(matchup_results[i].team, categories_info[c]) # None)

\* C10 witness: one opponent with a full tally that holds a tie, another
\* with a category skipped
C10_Witness ==
    /\ pc = "done"
    /\ \E i \in 1..Len(matchup_results) :
          /\ Tally(matchup_results[i]) = Len(categories_info)
          /\ CountCode(matchup_results[i].category_results, "T") = 1
    /\ \E i \in 1..Len(matchup_results) :
          Tally(matchup_results[i]) < Len(categories_info)

---------------------------------------------------------------------------
(* The comparison run with the teams supplied in every order *)

\* the permutations of 1..3
Perms ==
    {f \in [1..3 -> 1..3] : \A i, j \in 1..3 : i # j => f[i] # f[j]}

\* a team's stats of the week in the ordered run: nothing, a ratio stat only,
\* or points (possibly without a value) and turnovers
OrderStatLists ==
    {<<>>, <<Stat(<<"9">>, <<"F","G","M","/","F","G","A">>, <<"3","/","7">>)>>}
    \cup {<<Stat(PTS_ID, PTS, v), Stat(TO_ID, TO, w)>> :
             v \in {<<>>, <<"1">>, <<"2">>}, w \in {<<"1">>, <<"2">>}}

\* the roster is supplied in the order q, the teams meet the matchups (and so
\* the stats dict) in the order p; team 4 is off the roster and has no stats
InitOrder ==
    /\ pc = "start"
    /\ selected_team \in {1, 2, 3}
    /\ \E p \in Perms, q \in Perms, l \in [1..3 -> OrderStatLists] :
          /\ all_teams = [i \in 1..3 |-> Team(q[i])]
          /\ matchups = <<Matchup(Team(p[1]), l[p[1]], Team(p[2]), l[p[2]]),
                          Matchup(Team(p[3]), l[p[3]], Team(4), <<>>)>>
    /\ all_team_stats = <<>>
    /\ categories_info = <<>>
    /\ cat_idx = 0
    /\ rows = <<>>
    /\ matchup_results = <<>>
    /\ error = "none"
    /\ args = <<>>
    /\ ret = None

SpecOrder == InitOrder /\ [][Next]_vars

---------------------------------------------------------------------------
(* Claims about the order of the teams *)

\* the (id, display) pairs a stats list reports
CategorySet(l) == {<<l[i].id, l[i].display>> : i \in 1..Len(l)}

\* all teams of the stats dict report the same category set
SameCategorySet ==
    \A i, j \in 1..Len(all_team_stats) :
        CategorySet(all_team_stats[i].val) = CategorySet(all_team_stats[j].val)

\* the stats dict with its teams in ascending order of team id
StatsByTeamId ==
    [i \in 1..Len(all_team_stats) |->
        CHOOSE e \in {all_team_stats[j] : j \in 1..Len(all_team_stats)} :
            Cardinality({j \in 1..Len(all_team_stats) :
                            all_team_stats[j].key < e.key}) = i - 1]

\* the roster with its teams in ascending order of team id
RosterByTeamId ==
    [i \in 1..Len(all_teams) |->
        CHOOSE t \in {all_teams[j] : j \in 1..Len(all_teams)} :
            Cardinality({j \in 1..Len(all_teams) :
                            all_teams[j].team_id < t.team_id}) = i - 1]

\* C11: in the row just made, the beaten count is at most the opponent count,
\* the opponent count is the number of other roster teams with a value, and
\* when all teams report the same category set the beaten count (and the
\* opponent count) is the one compare_teams reports with the roster and the
\* stats dict in ascending order of team id, whatever the order they were
\* supplied in. (SpecOrder supplies every order.)
C11_BeatenCountOrderFree ==
    (pc = "rows" /\ rows # <<>>) =>
        LET k == Len(rows)
            cat == categories_info[k]
        IN /\ rows[k].better_than <= rows[k].others
           /\ rows[k].available =>
                 rows[k].others =
                     Cardinality({t \in Opponents : ValueOf(t, cat) # None})
           /\ SameCategorySet =>
                 /\ get_category_info_from_stats(StatsByTeamId[1].val) = categories_info
                 /\ \E r \in {compare_category(selected_team, RosterByTeamId,
                                               StatsByTeamId, cat)} :
                        /\ ~r.raised
                        /\ r.row.better_than = rows[k].better_than
                        /\ r.row.others = rows[k].others

\* C11 witness: roster and stats dict are both supplied out of team-id order,
\* the teams report the same categories, and the selected team beats one of
\* its two opponents on points
C11_Witness ==
    /\ pc = "rows" /\ rows # <<>>
    /\ SameCategorySet
    /\ Len(all_team_stats) = 3
    /\ all_team_stats # StatsByTeamId
    /\ all_teams # RosterByTeamId
    /\ rows[Len(rows)].category = PTS
    /\ rows[Len(rows)].better_than = 1
    /\ rows[Len(rows)].others = 2

---------------------------------------------------------------------------
(* The performance tier, called on every count up to MaxTeams *)

InitTier ==
    /\ NoRun
    /\ pc = "call"
    /\ \E t \in 0..MaxTeams, b \in 0..MaxTeams :
          /\ b <= t
          /\ args = [better_than |-> b, total_teams |-> t]
    /\ ret = None

\* lines 442-460
CallGetColor ==
    /\ pc = "call"
    /\ ret' = [fn |-> "get_color_for_performance",
               color |-> get_color_for_performance(args.better_than, args.total_teams)]
    /\ pc' = "returned"
    /\ UNCHANGED <<RunVars, args>>

\* lines 558-572: the "vs Teams" cell of a row whose other_values has
\* total_teams elements, better_than of them beaten
CallVsTeams ==
    /\ pc = "call"
    /\ ret' = [fn |-> "vs_teams",
               row |-> ranked_row(PTS, Float(1, 0),
                                  <<[team_id |-> 1, team_name |-> Team(1).name,
                                     value |-> Float(1, 0)]>>,
                                  args.total_teams, args.better_than)]
    /\ pc' = "returned"
    /\ UNCHANGED <<RunVars, args>>

NextTier == CallGetColor \/ CallVsTeams

SpecTier == InitTier /\ [][NextTier]_vars

\* beaten / opponent_count >= num / 10
RatioAtLeast(beaten, opponent_count, num) == beaten * 10 >= num * opponent_count

\* the tier of the ratio beaten / opponent_count
TierOfRatio(beaten, opponent_count) ==
    IF RatioAtLeast(beaten, opponent_count, 7) THEN "GREEN"
    ELSE IF ~RatioAtLeast(beaten, opponent_count, 3) THEN "RED"
    ELSE "YELLOW"

\* C12: with an opponent count of 0 the row reports 0/0 with no tier and
\* get_color_for_performance returns without dividing; otherwise the tier is
\* top for a ratio >= 0.7, bottom for a ratio < 0.3 and middle in between,
\* and the row carries that tier with the two counts. (SpecTier)
C12_TierOfCounts ==
    pc = "returned" =>
        LET b == args.better_than
            t == args.total_teams
        IN /\ ret.fn = "get_color_for_performance" =>
                ret.color = (IF t = 0 THEN "RESET" ELSE TierOfRatio(b, t))
           /\ ret.fn = "vs_teams" =>
                IF t = 0
                THEN /\ ret.row.better_than = 0 /\ ret.row.others = 0
                     /\ ret.row.color = "-"
                ELSE /\ ret.row.better_than = b /\ ret.row.others = t
                     /\ ret.row.color = TierOfRatio(b, t)

\* C12 witness: the boundary 7 of 10 has been put in the top tier of a row
C12_Witness ==
    /\ pc = "returned"
    /\ args = [better_than |-> 7, total_teams |-> 10]
    /\ ret.fn = "vs_teams"
    /\ ret.row.color = "GREEN"

---------------------------------------------------------------------------
(* Claims about a category the selected team has no value for *)

\* a stats list without the stat of the category
WithoutStat(l, category_name) ==
    SelectBy(l, [i \in 1..Len(l) |-> l[i].display # category_name])

RECURSIVE StatsWithout(_, _)
\* the stats dict of a week in which no team reports the category
StatsWithout(team_stats, category_name) ==
    IF team_stats = <<>> THEN <<>>
    ELSE store_team_stats(
             StatsWithout(SubSeq(team_stats, 1, Len(team_stats) - 1), category_name),
             [team_id |-> team_stats[Len(team_stats)].key],
             WithoutStat(team_stats[Len(team_stats)].val, category_name))

\* the rows made so far keep to C13: a category without a selected value has
\* the not-available row, and every later row is the one compare_teams makes
\* from a week in which that category is absent
NoneRowsSkipped ==
    \A k \in 1..Len(rows) :
        ValueOf(selected_team, categories_info[k]) = None =>
            /\ rows[k] = NotAvailableRow(categories_info[k].name)
            /\ \A j \in (k + 1)..Len(rows) :
                  \E r \in {compare_category(selected_team, all_teams,
                                StatsWithout(all_team_stats, categories_info[k].name),
                                categories_info[j])} :
                      ~r.raised /\ r.row = rows[j]

\* the loop is at a category the selected team has no value for
AtNoneCategory ==
    /\ pc = "rows"
    /\ cat_idx <= Len(categories_info)
    /\ ValueOf(selected_team, categories_info[cat_idx]) = None

\* C13: at a category the selected team has no value for, compare_teams
\* raises nothing, adds the not-available row (no best, no worst, no beaten
\* count) and goes on to the next category; every later row is the same as
\* if the category were absent from the week's stats.
C13_NoneCategorySkipped ==
    /\ []NoneRowsSkipped
    /\ [][AtNoneCategory =>
            /\ pc' = "rows"
            /\ error' = error
            /\ cat_idx' = cat_idx + 1
            /\ rows' = Append(rows, NotAvailableRow(categories_info[cat_idx].name))]_vars

\* C13 witness: the selected team has no points value while two opponents
\* have; the points row is not available and the turnover row after it ranks
\* the selected team against three opponents
C13_Witness ==
    /\ pc = "done"
    /\ Len(rows) = 2
    /\ ValueOf(selected_team, categories_info[1]) = None
    /\ Cardinality({t \in Opponents : ValueOf(t, categories_info[1]) # None}) >= 2
    /\ ~rows[1].available
    /\ rows[2].available /\ rows[2].others = 3

---------------------------------------------------------------------------
(* Claims about the order of the head-to-head results *)

\* C14: the head-to-head results are in non-increasing order of wins, and two
\* opponents with the same number of wins are in the order in which they were
\* met in the stats dict, whatever their losses and names.
C14_SortedByWinsStable ==
    pc = "done" =>
        \A i, j \in 1..Len(matchup_results) :
            i < j =>
                /\ matchup_results[i].wins >= matchup_results[j].wins
                /\ matchup_results[i].wins = matchup_results[j].wins =>
                      DictPos(matchup_results[i].team) < DictPos(matchup_results[j].team)

\* C14 witness: three results; the sort has moved a later team to the front,
\* and of two opponents with equal wins the one met first comes first although
\* it has more losses
C14_Witness ==
    /\ pc = "done"
    /\ Len(matchup_results) = 3
    /\ matchup_results[1].wins > matchup_results[2].wins
    /\ DictPos(matchup_results[1].team) > DictPos(matchup_results[2].team)
    /\ matchup_results[2].wins = matchup_results[3].wins
    /\ matchup_results[2].losses > matchup_results[3].losses

---------------------------------------------------------------------------
(* The polarity of a category, called on names and ids of every kind *)

\* names that contain "turnover", are "to" or "tov", start with "to " or end
\* with " to", in any case
TurnoverNames ==
    {<<"T", "O">>,
     <<"t", "o">>,
     <<"T", "o">>,
     <<"T", "O", "V">>,
     <<"t", "o", "v">>,
     <<"T", "u", "r", "n", "o", "v", "e", "r", "s">>,
     <<"T", "U", "R", "N", "O", "V", "E", "R">>,
     <<"T", "e", "a", "m", " ", "T", "u", "r", "n", "o", "v", "e", "r", " ", "%">>,
     <<"T", "O", " ", "M", "a", "d", "e">>,
     <<"t", "o", " ", "g", "o">>,
     <<"3", "P", "T", " ", "T", "O">>,
     <<"P", "a", "s", "s", " ", "t", "o">>,
     <<"T", "O", " ">>}

\* names that only resemble them
OtherNames ==
    {<<"P", "T", "S">>,
     <<"T", "O", "T">>,
     <<"T", "O", "T", "A", "L">>,
     <<"A", "U", "T", "O">>,
     <<"S", "T", "O">>,
     <<"T", "O", "V", "S">>,
     <<"A", "/", "T">>,
     <<"T", "u", "r", "n", " ", "O", "v", "e", "r">>,
     <<>>}

\* no id, the turnover id, and ids that only resemble it
PolarityIds == {<<>>,
                <<"1", "9">>,
                <<"1">>,
                <<"1", "2">>,
                <<"1", "9", "0">>,
                <<"9">>}

InitPolarity ==
    /\ NoRun
    /\ pc = "call"
    /\ \E n \in TurnoverNames \cup OtherNames, i \in PolarityIds :
          args = [category_name |-> n, stat_id |-> i]
    /\ ret = None

CallIsLowerBetter ==
    /\ pc = "call"
    /\ ret' = is_lower_better_stat(args.category_name, args.stat_id)
    /\ pc' = "returned"
    /\ UNCHANGED <<RunVars, args>>

SpecPolarity == InitPolarity /\ [][CallIsLowerBetter]_vars

\* C15: is_lower_better_stat returns True exactly for a turnover name (lower
\* case contains "turnover", equals "to" or "tov", starts with "to " or ends
\* with " to") or the turnover id "19", and False for every other name and
\* id. (SpecPolarity)
C15_LowerIsBetterExactly ==
    pc = "returned" =>
        ret = (args.category_name \in TurnoverNames \/ args.stat_id = <<"1","9">>)

\* C15 witness: "TOTAL" with the id "190" has been found higher-is-better
C15_Witness ==
    /\ pc = "returned"
    /\ args = [category_name |-> <<"T","O","T","A","L">>, stat_id |-> <<"1","9","0">>]
    /\ ret = FALSE

---------------------------------------------------------------------------
(* Claims about the two reports together *)

\* the head-to-head results that hold an outcome out of codes for the category
ResultsWith(cat_info, codes) ==
    {i \in 1..Len(matchup_results) :
        \E e \in 1..Len(matchup_results[i].category_results) :
            /\ matchup_results[i].category_results[e].name = cat_info.name
            /\ matchup_results[i].category_results[e].code \in codes}

\* C16: in a finished run, for every category the selected team has a value
\* for, the row's beaten count is the number of opponents with the outcome W
\* for the category and its opponent count is the number of opponents with
\* any outcome for it; for a category without a selected value no opponent
\* has an outcome.
C16_ReportsAgree ==
    pc = "done" =>
        \A k \in 1..Len(categories_info) :
            IF ValueOf(selected_team, categories_info[k]) # None
            THEN /\ rows[k].better_than =
                        Cardinality(ResultsWith(categories_info[k], {"W"}))
                 /\ rows[k].others =
                        Cardinality(ResultsWith(categories_info[k], {"W", "L", "T"}))
            ELSE ResultsWith(categories_info[k], {"W", "L", "T"}) = {}

\* C16 witness: the selected team has no points value although opponents
\* have, and beats two of its three opponents on turnovers, the third with a
\* tie or a loss
C16_Witness ==
    /\ pc = "done"
    /\ Len(rows) = 2
    /\ ValueOf(selected_team, categories_info[1]) = None
    /\ \E t \in Opponents : ValueOf(t, categories_info[1]) # None
    /\ rows[2].better_than = 2 /\ rows[2].others = 3
    /\ Cardinality(ResultsWith(categories_info[2], {"W"})) = 2

====
